---- MODULE Spec2Model ----
(***************************************************************************)
(* Multi-node supply chain simulation (src/multi_node_simulation.py) with  *)
(* its metrics log (src/metrics_logger.py).                                *)
(*                                                                         *)
(* A TrackedUnit object is identified by its handle: its position in       *)
(* tracked_units, which the code only ever appends to.  Every queue entry  *)
(* holds the handle of the object the Python tuple references.             *)
(* Python's None is modelled by None (-1) where the value is a tick and by *)
(* the empty tuple where the value is a (tick, tick) pair.                 *)
(*                                                                         *)
(* The single-stage shop simulation (src/main.py) is modelled next to it   *)
(* in the variable simulation; the two programs share no state.            *)
(***************************************************************************)
EXTENDS Integers, Sequences, FiniteSets, TLC

\* ------------------------------------------------------------------ bounds
MaxNodes == 3
MaxInv == 1
MaxLag == 1
MaxManufacturingTime == 2
Horizon == 2
MaxDemand == 2
MaxCalls == 4
LongCalls == 5
RunCalls == 7
MaxInventory == 2
MaxLeadTime == 2
MaxShopDemand == 3
MaxInterval == 2
ShopCalls == 4

None == -1
NoPair == <<>>

VARIABLES
    num_nodes,               \* self.num_nodes
    initial_inventories,     \* self.initial_inventories
    manufacturing_time,      \* self.manufacturing_time
    max_time,                \* self.max_time
    nodes,                   \* self.nodes: sequence of Node records
    time,                    \* self.time
    stats,                   \* self.stats
    customer_demand_history, \* self.customer_demand_history
    tracked_units,           \* self.tracked_units
    metrics,                 \* self.metrics_logger.metrics
    last,                    \* observation of the last call (history variable)
    calls,                   \* number of step and reset calls so far (history variable)
    resets,                  \* number of reset calls so far (history variable)
    simulation               \* the Simulation object of src/main.py

vars == <<num_nodes, initial_inventories, manufacturing_time, max_time, nodes,
          time, stats, customer_demand_history, tracked_units, metrics,
          last, calls, resets, simulation>>

\* The state a caller can observe through the engine's attributes.
observable == <<nodes, time, stats, customer_demand_history, tracked_units, metrics>>

\* ------------------------------------------------------------ sequences
Range(s) == {s[i] : i \in DOMAIN s}

\* ------------------------------------------------------------ TrackedUnit
Timeline(t_demand_actual_customer) ==
    [t_demand_actual_customer    |-> t_demand_actual_customer,
     t_order_to_supplier         |-> None,
     t_order_arrived_at_supplier |-> None,
     t_manufacturing_completed   |-> None,
     t_given_to_actual_customer  |-> None]

TrackedUnit(unit_id, t_demand_actual_customer) ==
    [id |-> unit_id, timeline |-> Timeline(t_demand_actual_customer)]

\* unit ids: ('init_k', j) is <<"init", k, j>>, (t, i) is <<"dem", t, i>>
InitUnitId(k, j) == <<"init", k, j>>
DemandUnitId(t, i) == <<"dem", t, i>>

\* ------------------------------------------------------------ MetricsLogger
MetricsRow(unit_id, customer_request_time, n) ==
    [unit_id                 |-> unit_id,
     customer_request        |-> customer_request_time,
     order_to_node           |-> [k \in 1..n |-> None],
     arrive_at_node          |-> [k \in 1..n |-> NoPair],
     manufacturing_completed |-> None,
     customer_delivered      |-> NoPair]

\* add_unit: a new row; unit_id_to_idx[str(unit_id)] now names it
add_unit(m, unit_id, customer_request_time, n) ==
    Append(m, MetricsRow(unit_id, customer_request_time, n))

\* unit_id_to_idx.get(str(unit_id)): the row added last under that id, 0 for None
unit_id_to_idx(m, unit_id) ==
    LET S == {k \in DOMAIN m : m[k].unit_id = unit_id}
    IN IF S = {} THEN 0 ELSE CHOOSE k \in S : \A j \in S : j <= k

\* update(unit_id, column, value); the column is named by its field and node number
update(m, unit_id, column, k, value) ==
    LET idx == unit_id_to_idx(m, unit_id)
    IN IF idx = 0 THEN m
       ELSE IF column = "order_to_node" /\ k \in DOMAIN m[idx].order_to_node
            THEN [m EXCEPT ![idx].order_to_node[k] = value]
       ELSE IF column = "arrive_at_node" /\ k \in DOMAIN m[idx].arrive_at_node
            THEN [m EXCEPT ![idx].arrive_at_node[k] = value]
       ELSE IF column = "manufacturing_completed"
            THEN [m EXCEPT ![idx].manufacturing_completed = value]
       ELSE IF column = "customer_delivered"
            THEN [m EXCEPT ![idx].customer_delivered = value]
       ELSE m

\* ------------------------------------------------------------------ Node
\* mutant of Node: node 1 is never the manufacturer, also when it is the last node
Node_first_sells(node_id, initial_inventory, order_comm_lag, lag_time, is_manufacturer, mt) ==
    [node_id            |-> node_id,
     inventory          |-> initial_inventory,
     order_comm_lag     |-> order_comm_lag,
     lag_time           |-> lag_time,
     inventory_units    |-> <<>>,
     customer_queue     |-> <<>>,
     incoming_shipments |-> <<>>,
     incoming_orders    |-> <<>>,
     is_manufacturer    |-> is_manufacturer /\ node_id > 1,
     manufacturing_time |-> mt,
     active_batches     |-> <<>>]

Node(node_id, initial_inventory, order_comm_lag, lag_time, is_manufacturer, mt) ==
    [node_id            |-> node_id,
     inventory          |-> initial_inventory,
     order_comm_lag     |-> order_comm_lag,
     lag_time           |-> lag_time,
     inventory_units    |-> <<>>,
     customer_queue     |-> <<>>,   \* <<arrival_time, qty, unit, requested_time>>
     incoming_shipments |-> <<>>,   \* <<arrival_time, unit, sent_time, requested_time>>
     incoming_orders    |-> <<>>,   \* <<arrival_time, unit, sent_time>>
     is_manufacturer    |-> is_manufacturer,
     manufacturing_time |-> mt,
     active_batches     |-> <<>>]   \* [start, end, units, requested_times]

\* Node.add_to_customer_queue
add_to_customer_queue(node, t, unit, requested_time) ==
    [node EXCEPT !.customer_queue = Append(@, <<t, 1, unit, requested_time>>)]

\* mutant of Arrived: an entry is taken one tick before its arrival time
Arrived_early(entry, current_time) == entry[1] <= current_time + 1

\* mutant of Arrived: an entry is taken the tick after its arrival time (< for <=)
Arrived_late(entry, current_time) == entry[1] < current_time

\* the loop test of receive_shipments and receive_orders on the head entry
Arrived(entry, current_time) == entry[1] <= current_time

\* mutant of ReadyCount: one arrived entry is taken per call (if for while)
ReadyCount_once(q, current_time) ==
    IF q # <<>> /\ Arrived(Head(q), current_time) THEN 1 ELSE 0

\* number of entries the loop of receive_shipments / receive_orders pops:
\* it stops at the first head entry that has not arrived
RECURSIVE ReadyCount(_, _)
ReadyCount(q, current_time) ==
    IF q # <<>> /\ Arrived(Head(q), current_time)
    THEN 1 + ReadyCount(Tail(q), current_time)
    ELSE 0

\* mutant of receive_shipments: each arrival is put at the front of the
\* inventory (insert(0, unit) for append(unit))
receive_shipments_front(node, current_time) ==
    LET q == node.incoming_shipments
        k == ReadyCount(q, current_time)
        popped == SubSeq(q, 1, k)
    IN [node |-> [node EXCEPT
                    !.incoming_shipments = SubSeq(q, k + 1, Len(q)),
                    !.inventory_units = [j \in 1..k |-> popped[k + 1 - j][2]] \o @],
        popped |-> popped,
        received_units |-> [j \in 1..k |-> <<popped[j][2], popped[j][4]>>]]

\* Node.receive_shipments: the node afterwards, the popped entries and the
\* returned (unit, requested_time) pairs
receive_shipments(node, current_time) ==
    LET q == node.incoming_shipments
        k == ReadyCount(q, current_time)
        popped == SubSeq(q, 1, k)
    IN [node |-> [node EXCEPT
                    !.incoming_shipments = SubSeq(q, k + 1, Len(q)),
                    !.inventory_units = @ \o [j \in 1..k |-> popped[j][2]]],
        popped |-> popped,
        received_units |-> [j \in 1..k |-> <<popped[j][2], popped[j][4]>>]]

\* Node.receive_orders: the node afterwards, the popped entries and the
\* returned (sent_time, unit) pairs
receive_orders(node, current_time) ==
    LET q == node.incoming_orders
        k == ReadyCount(q, current_time)
        popped == SubSeq(q, 1, k)
    IN [node |-> [node EXCEPT !.incoming_orders = SubSeq(q, k + 1, Len(q))],
        popped |-> popped,
        orders |-> [j \in 1..k |-> <<popped[j][3], popped[j][2]>>]]

\* mutant of PopDemand: the newest demand entry is taken (pop() for popleft())
PopDemand_newest(q) == [entry |-> q[Len(q)], rest |-> SubSeq(q, 1, Len(q) - 1)]

\* mutant of PopDemand: two demand entries are removed for one unit shipped
PopDemand_pair(q) == [entry |-> Head(q), rest |-> SubSeq(q, 3, Len(q))]

\* line 79-80: the head of the demand queue is taken and removed
PopDemand(q) == [entry |-> Head(q), rest |-> Tail(q)]

\* mutant of PopInventory: the unit is read and left in the inventory
PopInventory_kept(inv) == [unit |-> Head(inv), rest |-> inv]

\* mutant of PopInventory: the unit shipped is put back at the end of the inventory
PopInventory_returned(inv) == [unit |-> Head(inv), rest |-> Append(Tail(inv), Head(inv))]

\* mutant of PopInventory: the newest unit is taken (pop() for pop(0))
PopInventory_last(inv) == [unit |-> inv[Len(inv)], rest |-> SubSeq(inv, 1, Len(inv) - 1)]

\* line 81: the head of the inventory is taken and removed
PopInventory(inv) == [unit |-> Head(inv), rest |-> Tail(inv)]

\* Node.fulfill_customer_queue: the node afterwards, the returned shipped_units
\* (arrival, inv_unit, shipped_time, requested_time) and the (unit,
\* requested_time) of the demand entries popped, in the order of the loop
RECURSIVE fulfill_customer_queue(_, _, _)
fulfill_customer_queue(node, t, has_downstream) ==
    IF node.customer_queue # <<>> /\ node.inventory_units # <<>>
    THEN LET d == PopDemand(node.customer_queue)
             i == PopInventory(node.inventory_units)
             arrival == IF has_downstream THEN t + node.lag_time ELSE t
             rest == fulfill_customer_queue(
                        [node EXCEPT !.customer_queue = d.rest,
                                     !.inventory_units = i.rest],
                        t, has_downstream)
         IN [node |-> rest.node,
             shipped_units |-> <<<<arrival, i.unit, t, d.entry[4]>>>> \o rest.shipped_units,
             served |-> <<<<d.entry[3], d.entry[4]>>>> \o rest.served]
    ELSE [node |-> node, shipped_units |-> <<>>, served |-> <<>>]

\* mutant of BatchDue: a batch is shipped the tick after its completion tick
BatchDue_late(batch, t) == t > batch.end

\* process_manufacturing, step 1: the test that selects the batches to ship
BatchDue(batch, t) == t >= batch.end

\* mutant of BatchShipments: only the first unit of a closed batch is shipped
BatchShipments_first(batch, lag_time) ==
    <<<<batch.end + lag_time, batch.units[1], batch.end, batch.requested_times[1]>>>>

\* the shipment tuples of a closed batch, one per unit
BatchShipments(batch, lag_time) ==
    [j \in 1..Len(batch.units) |->
        <<batch.end + lag_time, batch.units[j], batch.end, batch.requested_times[j]>>]

RECURSIVE ConcatAll(_)
ConcatAll(ss) == IF ss = <<>> THEN <<>> ELSE Head(ss) \o ConcatAll(Tail(ss))

\* mutant of SameArrivalCount: every entry is a group of its own
SameArrivalCount_single(q, first_arrival_time) == 1

\* number of head entries of the demand queue with the given arrival time
RECURSIVE SameArrivalCount(_, _)
SameArrivalCount(q, first_arrival_time) ==
    IF q # <<>> /\ Head(q)[1] = first_arrival_time
    THEN 1 + SameArrivalCount(Tail(q), first_arrival_time)
    ELSE 0

\* mutant of StartBatches: the queue advances by one entry per batch, so a
\* group of k entries is batched k times
RECURSIVE StartBatches_overlapping(_, _, _)
StartBatches_overlapping(q, t, mt) ==
    IF q = <<>> THEN <<>>
    ELSE LET k == SameArrivalCount(q, Head(q)[1])
             batch == [start |-> t,
                       end |-> t + mt,
                       units |-> [j \in 1..k |-> q[j][3]],
                       requested_times |-> [j \in 1..k |-> q[j][4]]]
         IN <<batch>> \o StartBatches_overlapping(Tail(q), t, mt)

\* mutant of StartBatches: one batch holding the head entry alone is started
\* per call (if for while, twice)
StartBatches_head_only(q, t, mt) ==
    IF q = <<>> THEN <<>>
    ELSE <<[start |-> t, end |-> t + mt,
            units |-> <<Head(q)[3]>>, requested_times |-> <<Head(q)[4]>>]>>

\* process_manufacturing, step 2: the batches started from the demand queue
RECURSIVE StartBatches(_, _, _)
StartBatches(q, t, mt) ==
    IF q = <<>> THEN <<>>
    ELSE LET k == SameArrivalCount(q, Head(q)[1])
             batch == [start |-> t,
                       end |-> t + mt,
                       units |-> [j \in 1..k |-> q[j][3]],
                       requested_times |-> [j \in 1..k |-> q[j][4]]]
         IN <<batch>> \o StartBatches(SubSeq(q, k + 1, Len(q)), t, mt)

\* Node.process_manufacturing: the node afterwards (its own fields only), the
\* batches closed, the shipment tuples for the downstream node, the batches
\* opened and the (unit, requested_time) of the demand entries drained into
\* them, in batch order
process_manufacturing(node, t) ==
    LET batches_to_ship == SelectSeq(node.active_batches, LAMBDA b : BatchDue(b, t))
        remaining == SelectSeq(node.active_batches, LAMBDA b : ~BatchDue(b, t))
        opened == StartBatches(node.customer_queue, t, node.manufacturing_time)
        served == ConcatAll([b \in 1..Len(opened) |->
                      [j \in 1..Len(opened[b].units) |->
                          <<opened[b].units[j], opened[b].requested_times[j]>>]])
    IN [node |-> [node EXCEPT !.active_batches = remaining \o opened,
                              !.customer_queue = SubSeq(@, Len(served) + 1, Len(@))],
        closed |-> batches_to_ship,
        shipments |-> ConcatAll([b \in 1..Len(batches_to_ship) |->
                          BatchShipments(batches_to_ship[b], node.lag_time)]),
        opened |-> opened,
        served |-> served]

\* ------------------------------------------------------ MultiNodeSimulation
\* A world is the part of the engine one step transforms:
\*   [nodes, tracked_units, metrics, log]
\* where log collects what the step did (the history variable last).

EmptyLog(n, t, customer_demand, w_nodes) ==
    [op        |-> "step",
     t         |-> t,
     demand    |-> customer_demand,
     created   |-> <<>>,                    \* handles of the units created
     shipments |-> [k \in 1..n |-> <<>>],   \* incoming_shipments entries popped, per node
     orders    |-> [k \in 1..n |-> <<>>],   \* incoming_orders entries popped, per node
     enqueued  |-> [k \in 1..n |-> <<>>],   \* demand entries appended, per node
     served    |-> [k \in 1..n |-> <<>>],   \* (unit, requested_time) of the demand entries popped, per node, in order
     sent      |-> [k \in 1..n |-> <<>>],   \* shipment tuples appended to node k's inbound queue
     delivered |-> <<>>,                    \* units handed to the customer
     closed    |-> <<>>,                    \* batches closed
     opened    |-> <<>>,                    \* batches opened
     before    |-> [customer_queues |-> [k \in 1..n |-> w_nodes[k].customer_queue],
                    inventories     |-> [k \in 1..n |-> w_nodes[k].inventory_units],
                    time            |-> t]]

\* __init__, lines 152-160: the pre-seeded units of node i, appended in order
RECURSIVE SeedUnits(_, _, _, _, _)
SeedUnits(w, inv, i, j, n) ==
    IF i > n THEN w
    ELSE IF j >= inv[i] THEN SeedUnits(w, inv, i + 1, 0, n)
    ELSE LET unit_id == InitUnitId(i, j)
             h == Len(w.tracked_units) + 1
         IN SeedUnits(
              [w EXCEPT !.nodes[i].inventory_units = Append(@, h),
                        !.tracked_units = Append(@, TrackedUnit(unit_id, None)),
                        !.metrics = add_unit(@, unit_id, None, n)],
              inv, i, j + 1, n)

\* mutant of OrderArrival: an order is visible upstream in the tick it is sent
OrderArrival_immediate(t, order_comm_lag) == t

\* lines 70 and 181: the tick an order sent at t becomes visible upstream
OrderArrival(t, order_comm_lag) == t + order_comm_lag

\* step, lines 164-184: the demand units are created, logged, queued at node 1
\* and ordered from node 2
RECURSIVE InjectDemand(_, _, _, _)
InjectDemand(w, t, i, customer_demand) ==
    IF i >= customer_demand THEN w
    ELSE LET n == Len(w.nodes)
             unit_id == DemandUnitId(t, i)
             h == Len(w.tracked_units) + 1
             arrival_time == OrderArrival(t, w.nodes[1].order_comm_lag)
             unit == TrackedUnit(unit_id, t)
             entry == <<t, 1, h, t>>
             w1 == [w EXCEPT
                      !.tracked_units = Append(@,
                          IF n > 1
                          THEN [unit EXCEPT !.timeline.t_order_to_supplier = t,
                                            !.timeline.t_order_arrived_at_supplier = arrival_time]
                          ELSE unit),
                      !.metrics = update(add_unit(@, unit_id, t, n),
                                         unit_id, "order_to_node", 1, t),
                      !.nodes[1] = add_to_customer_queue(@, t, h, t),
                      !.log.created = Append(@, h),
                      !.log.enqueued[1] = Append(@, entry)]
             w2 == IF n > 1
                   THEN [w1 EXCEPT !.nodes[2].incoming_orders =
                                        Append(@, <<arrival_time, h, t>>)]
                   ELSE w1
         IN InjectDemand(w2, t, i + 1, customer_demand)

\* the metrics updates of a list of (unit, requested_time) arrivals at a node
RECURSIVE LogArrivals(_, _, _, _, _)
LogArrivals(m, units, received_units, node_id, t) ==
    IF received_units = <<>> THEN m
    ELSE LogArrivals(
           update(m, units[Head(received_units)[1]].id, "arrive_at_node", node_id,
                  <<t, Head(received_units)[2]>>),
           units, Tail(received_units), node_id, t)

\* step, lines 186-190: every node receives its arrived shipments
RECURSIVE ReceiveAll(_, _, _)
ReceiveAll(w, t, i) ==
    IF i > Len(w.nodes) THEN w
    ELSE ReceiveAll(
           LET r == receive_shipments(w.nodes[i], t)
           IN [w EXCEPT !.nodes[i] = r.node,
                        !.metrics = LogArrivals(@, w.tracked_units, r.received_units,
                                                w.nodes[i].node_id, t),
                        !.log.shipments[i] = r.popped],
           t, i + 1)

\* Node.propagate_order_upstream for the units of a list of orders: the
\* timeline stamps
RECURSIVE StampOrders(_, _, _, _)
StampOrders(units, orders, t, arrival_time) ==
    IF orders = <<>> THEN units
    ELSE StampOrders(
           [units EXCEPT ![Head(orders)[2]].timeline.t_order_to_supplier = t,
                         ![Head(orders)[2]].timeline.t_order_arrived_at_supplier = arrival_time],
           Tail(orders), t, arrival_time)

RECURSIVE LogOrders(_, _, _, _, _)
LogOrders(m, units, orders, node_id, t) ==
    IF orders = <<>> THEN m
    ELSE LogOrders(update(m, units[Head(orders)[2]].id, "order_to_node", node_id, t),
                   units, Tail(orders), node_id, t)

\* step, lines 192-203: nodes 2..N take their arrived orders, queue them as
\* demand and, unless the node is the last one, propagate them upstream
RECURSIVE ProcessOrders(_, _, _)
ProcessOrders(w, t, i) ==
    IF i > Len(w.nodes) THEN w
    ELSE ProcessOrders(
             LET r == receive_orders(w.nodes[i], t)
                 n == Len(w.nodes)
                 k == Len(r.orders)
                 entries == [j \in 1..k |-> <<t, 1, r.orders[j][2], r.orders[j][1]>>]
                 arrival_time == OrderArrival(t, w.nodes[i].order_comm_lag)
             IN [w EXCEPT
                   !.nodes[i] = [r.node EXCEPT !.customer_queue = @ \o entries],
                   !.nodes = IF i < n
                             THEN [@ EXCEPT ![i + 1].incoming_orders =
                                     @ \o [j \in 1..k |-> <<arrival_time, r.orders[j][2], t>>]]
                             ELSE @,
                   !.tracked_units = IF i < n
                                     THEN StampOrders(@, r.orders, t, arrival_time)
                                     ELSE @,
                   !.metrics = LogOrders(@, w.tracked_units, r.orders,
                                         w.nodes[i].node_id, t),
                   !.log.orders[i] = r.popped,
                   !.log.enqueued[i] = entries],
           t, i + 1)

\* the stamps and metrics of the units of closed batches
RECURSIVE StampCompleted(_, _)
StampCompleted(units, shipments) ==
    IF shipments = <<>> THEN units
    ELSE StampCompleted(
           [units EXCEPT ![Head(shipments)[2]].timeline.t_manufacturing_completed =
                             Head(shipments)[3]],
           Tail(shipments))

RECURSIVE LogCompleted(_, _, _, _)
LogCompleted(m, units, shipments, t) ==
    IF shipments = <<>> THEN m
    ELSE LogCompleted(
           update(m, units[Head(shipments)[2]].id, "manufacturing_completed", 0, t),
           units, Tail(shipments), t)

\* the stamps and metrics of the units node 1 hands to the customer
RECURSIVE StampDelivered(_, _, _)
StampDelivered(units, shipped_units, t) ==
    IF shipped_units = <<>> THEN units
    ELSE StampDelivered(
           [units EXCEPT ![Head(shipped_units)[2]].timeline.t_given_to_actual_customer = t],
           Tail(shipped_units), t)

RECURSIVE LogDelivered(_, _, _, _)
LogDelivered(m, units, shipped_units, t) ==
    IF shipped_units = <<>> THEN m
    ELSE LogDelivered(
           update(m, units[Head(shipped_units)[2]].id, "customer_delivered", 0,
                  <<t, Head(shipped_units)[4]>>),
           units, Tail(shipped_units), t)

\* mutant of Downstream: the last node ships to itself in every chain
Downstream_self(i, n) == IF i = n THEN n ELSE i - 1

\* self.nodes[i-1] for the 1-based position i: Python's index -1 is the last node
Downstream(i, n) == IF i = 1 THEN n ELSE i - 1

\* step, lines 205-222: fulfilment from the last node back to node 1
RECURSIVE FulfillAll(_, _, _)
FulfillAll(w, t, i) ==
    IF i < 1 THEN w
    ELSE LET n == Len(w.nodes)
             node == w.nodes[i]
             d == Downstream(i, n)
         IN IF node.is_manufacturer
            THEN FulfillAll(
                   LET r == process_manufacturing(node, t)
                   IN [w EXCEPT
                         !.nodes[i] = r.node,
                         !.nodes[d].incoming_shipments = @ \o r.shipments,
                         !.tracked_units = StampCompleted(@, r.shipments),
                         !.metrics = LogCompleted(@, w.tracked_units, r.shipments, t),
                         !.log.served[i] = r.served,
                         !.log.sent[d] = @ \o r.shipments,
                         !.log.closed = @ \o r.closed,
                         !.log.opened = @ \o r.opened],
                   t, i - 1)
            ELSE FulfillAll(
                   LET r == fulfill_customer_queue(node, t, i # 1)
                   IN IF i # 1
                      THEN [w EXCEPT
                              !.nodes[i] = r.node,
                              !.nodes[d].incoming_shipments = @ \o r.shipped_units,
                              !.log.served[i] = r.served,
                              !.log.sent[d] = @ \o r.shipped_units]
                      ELSE [w EXCEPT
                              !.nodes[i] = r.node,
                              !.tracked_units = StampDelivered(@, r.shipped_units, t),
                              !.metrics = LogDelivered(@, w.tracked_units, r.shipped_units, t),
                              !.log.served[i] = r.served,
                              !.log.delivered =
                                  [j \in 1..Len(r.shipped_units) |-> r.shipped_units[j][2]]],
                   t, i - 1)

\* step, lines 224-231: the stats record of the tick
StatsRecord(w_nodes, t) ==
    [time               |-> t,
     inventories        |-> [k \in DOMAIN w_nodes |-> Len(w_nodes[k].inventory_units)],
     customer_queues    |-> [k \in DOMAIN w_nodes |-> Len(w_nodes[k].customer_queue)],
     incoming_shipments |-> [k \in DOMAIN w_nodes |-> Len(w_nodes[k].incoming_shipments)],
     incoming_orders    |-> [k \in DOMAIN w_nodes |-> Len(w_nodes[k].incoming_orders)]]

\* mutant of is_finished: the horizon tick itself is not finished (> for >=)
is_finished_strict == time > max_time

\* MultiNodeSimulation.is_finished
is_finished == time >= max_time

\* MultiNodeSimulation.__init__
Construct(n, inv, ocl, lt, mxt, mt) ==
    LET fresh == [k \in 1..n |-> Node(k, inv[k], ocl[k], lt[k], k = n,
                                      IF k = n THEN mt ELSE None)]
        w == SeedUnits([nodes |-> fresh, tracked_units |-> <<>>, metrics |-> <<>>],
                       inv, 1, 0, n)
    IN /\ num_nodes = n
       /\ initial_inventories = inv
       /\ manufacturing_time = mt
       /\ max_time = mxt
       /\ nodes = w.nodes
       /\ time = 0
       /\ stats = <<>>
       /\ customer_demand_history = <<>>
       /\ tracked_units = w.tracked_units
       /\ metrics = w.metrics

\* mutant of step: fulfilment runs before the shipments are received
step_fulfil_first(customer_demand) ==
    LET t == time
        w0 == [nodes |-> nodes, tracked_units |-> tracked_units, metrics |-> metrics,
               log |-> EmptyLog(num_nodes, t, customer_demand, nodes)]
        w1 == InjectDemand(w0, t, 0, customer_demand)
        w2 == ProcessOrders(w1, t, 2)
        w3 == FulfillAll(w2, t, num_nodes)
    IN \E w4 \in {ReceiveAll(w3, t, 1)} :
       /\ customer_demand_history' = Append(customer_demand_history, customer_demand)
       /\ nodes' = w4.nodes
       /\ tracked_units' = w4.tracked_units
       /\ metrics' = w4.metrics
       /\ stats' = Append(stats, StatsRecord(w4.nodes, t))
       /\ time' = time + 1
       /\ last' = w4.log
       /\ UNCHANGED <<num_nodes, initial_inventories, manufacturing_time, max_time>>

\* mutant of step: the nodes receive shipments once more after fulfilment
step_receive_twice(customer_demand) ==
    LET t == time
        w0 == [nodes |-> nodes, tracked_units |-> tracked_units, metrics |-> metrics,
               log |-> EmptyLog(num_nodes, t, customer_demand, nodes)]
        w1 == InjectDemand(w0, t, 0, customer_demand)
        w2 == ReceiveAll(w1, t, 1)
        w3 == ProcessOrders(w2, t, 2)
        w4 == FulfillAll(w3, t, num_nodes)
    IN \E w5 \in {[ReceiveAll(w4, t, 1) EXCEPT !.log = w4.log]} :
       /\ customer_demand_history' = Append(customer_demand_history, customer_demand)
       /\ nodes' = w5.nodes
       /\ tracked_units' = w5.tracked_units
       /\ metrics' = w5.metrics
       /\ stats' = Append(stats, StatsRecord(w5.nodes, t))
       /\ time' = time + 1
       /\ last' = w5.log
       /\ UNCHANGED <<num_nodes, initial_inventories, manufacturing_time, max_time>>

\* MultiNodeSimulation.step(customer_demand); a demand drawn by
\* random.randint(0, max_demand) is one of the non-negative values
step(customer_demand) ==
    LET t == time
        w0 == [nodes |-> nodes, tracked_units |-> tracked_units, metrics |-> metrics,
               log |-> EmptyLog(num_nodes, t, customer_demand, nodes)]
        w1 == InjectDemand(w0, t, 0, customer_demand)
        w2 == ReceiveAll(w1, t, 1)
        w3 == ProcessOrders(w2, t, 2)
    IN \E w4 \in {FulfillAll(w3, t, num_nodes)} :
       /\ customer_demand_history' = Append(customer_demand_history, customer_demand)
       /\ nodes' = w4.nodes
       /\ tracked_units' = w4.tracked_units
       /\ metrics' = w4.metrics
       /\ stats' = Append(stats, StatsRecord(w4.nodes, t))
       /\ time' = time + 1
       /\ last' = w4.log
       /\ UNCHANGED <<num_nodes, initial_inventories, manufacturing_time, max_time>>

\* MultiNodeSimulation.reset: inventory_units and active_batches are not
\* touched, nor are tracked_units and the metrics log
reset ==
    /\ nodes' = [k \in DOMAIN nodes |->
                    [nodes[k] EXCEPT !.inventory = initial_inventories[k],
                                     !.customer_queue = <<>>,
                                     !.incoming_shipments = <<>>,
                                     !.incoming_orders = <<>>]]
    /\ time' = 0
    /\ stats' = <<>>
    /\ customer_demand_history' = <<>>
    /\ UNCHANGED <<num_nodes, initial_inventories, manufacturing_time, max_time,
                   tracked_units, metrics>>

NoLog == [op |-> "init", t |-> 0]

\* no Simulation object of src/main.py has been constructed
NoSimulation == [time |-> None]

\* The configurations the engine is constructed with.  Three constructor
\* arguments are never read by step and are held at one value: the order lag
\* of the last node (it has no upstream node), the transit lag of node 1 when
\* there are several nodes (it ships to no node), and max_time (read by
\* is_finished alone).  The stock of the last node of a chain of several nodes
\* is never picked from; it is seeded at MaxInv.
Configurations ==
    { c \in [num_nodes : 1..MaxNodes,
             inv : UNION {[1..n -> 0..MaxInv] : n \in 1..MaxNodes},
             ocl : UNION {[1..n -> 0..MaxLag] : n \in 1..MaxNodes},
             lt  : UNION {[1..n -> 0..MaxLag] : n \in 1..MaxNodes},
             mt  : 1..MaxManufacturingTime] :
        /\ Len(c.inv) = c.num_nodes
        /\ Len(c.ocl) = c.num_nodes
        /\ Len(c.lt) = c.num_nodes
        /\ c.ocl[c.num_nodes] = MaxLag
        /\ c.num_nodes > 1 => c.lt[1] = MaxLag
        /\ c.num_nodes > 1 => c.inv[c.num_nodes] = MaxInv }

Init ==
    /\ \E c \in Configurations :
         Construct(c.num_nodes, c.inv, c.ocl, c.lt, Horizon, c.mt)
    /\ last = NoLog
    /\ calls = 0
    /\ resets = 0
    /\ simulation = NoSimulation

\* A call of step, with an override or with a sampled demand.
Step ==
    /\ calls < MaxCalls
    /\ \E customer_demand \in -1..MaxDemand : step(customer_demand)
    /\ calls' = calls + 1
    /\ UNCHANGED <<resets, simulation>>

\* A call of reset.  At tick 0 (right after construction or after a reset)
\* reset assigns every attribute the value it already has, so only the calls
\* at a later tick are taken.
Reset ==
    /\ calls < MaxCalls
    /\ time > 0
    /\ reset
    /\ last' = [op |-> "reset", t |-> time]
    /\ calls' = calls + 1
    /\ resets' = resets + 1
    /\ UNCHANGED simulation

Next == Step \/ Reset

Spec == Init /\ [][Next]_vars

\* The engine stepped once per tick and never reset.
NextNoReset == Step

SpecNoReset == Init /\ [][NextNoReset]_vars

\* A longer run of one two-node chain family: production time 1, demand 0 or
\* 1 per tick, up to LongCalls calls of step and reset.  It reaches the
\* states in which a produced unit has come to rest in node 1's inventory.
LongConfigurations == {c \in Configurations : c.num_nodes = 2 /\ c.mt = 1}

InitLong ==
    /\ \E c \in LongConfigurations :
         Construct(c.num_nodes, c.inv, c.ocl, c.lt, Horizon, c.mt)
    /\ last = NoLog
    /\ calls = 0
    /\ resets = 0
    /\ simulation = NoSimulation

StepLong ==
    /\ calls < LongCalls
    /\ \E customer_demand \in 0..1 : step(customer_demand)
    /\ calls' = calls + 1
    /\ UNCHANGED <<resets, simulation>>

ResetLong ==
    /\ calls < LongCalls
    /\ time > 0
    /\ reset
    /\ last' = [op |-> "reset", t |-> time]
    /\ calls' = calls + 1
    /\ resets' = resets + 1
    /\ UNCHANGED simulation

NextLong == StepLong \/ ResetLong

SpecLong == InitLong /\ [][NextLong]_vars

\* One run of a chain of several nodes whose transit lags are at least one
\* tick: step is called once per tick, up to RunCalls times, with any demand
\* up to MaxDemand, and reset is never called.  The run is long enough for a
\* unit to be ordered, produced and carried down a three-node chain.
RunConfigurations ==
    {c \in Configurations :
        c.num_nodes >= 2 /\ \A k \in 1..c.num_nodes : c.lt[k] >= 1}

InitRun ==
    /\ \E c \in RunConfigurations :
         Construct(c.num_nodes, c.inv, c.ocl, c.lt, Horizon, c.mt)
    /\ last = NoLog
    /\ calls = 0
    /\ resets = 0
    /\ simulation = NoSimulation

StepRun ==
    /\ calls < RunCalls
    /\ \E customer_demand \in 0..MaxDemand : step(customer_demand)
    /\ calls' = calls + 1
    /\ UNCHANGED <<resets, simulation>>

NextRun == StepRun

SpecRun == InitRun /\ [][NextRun]_vars

\* ------------------------------------------------------------ construction
\* mutant of LengthsAgree: only the inventories are compared with num_nodes
LengthsAgree_inventories(n, inv, ocl, lt) == n = Len(inv)

\* __init__, line 132: the chained comparison of the assert
LengthsAgree(n, inv, ocl, lt) ==
    n = Len(inv) /\ Len(inv) = Len(ocl) /\ Len(ocl) = Len(lt)

\* the arguments a caller may pass to the constructor: arrays of any length
\* up to MaxNodes, a production time and a horizon that may be 0
ConstructorArguments ==
    [num_nodes : 1..MaxNodes,
     inv : {[k \in 1..m |-> MaxInv] : m \in 1..MaxNodes},
     ocl : {[k \in 1..m |-> 0] : m \in 1..MaxNodes},
     lt  : {[k \in 1..m |-> MaxLag] : m \in 1..MaxNodes},
     mxt : {0, Horizon},
     mt  : 0..MaxManufacturingTime]

\* __init__ left by an exception: the attributes assigned before line 132 are
\* set, no node, tracked unit or metrics row exists, and the caller holds no
\* engine
Raised(error, c) ==
    /\ num_nodes = c.num_nodes
    /\ initial_inventories = c.inv
    /\ manufacturing_time = None
    /\ max_time = None
    /\ nodes = <<>>
    /\ time = None
    /\ stats = <<>>
    /\ customer_demand_history = <<>>
    /\ tracked_units = <<>>
    /\ metrics = <<>>
    /\ last = [op |-> "raise", error |-> error, args |-> c]

\* MultiNodeSimulation(...) with any arguments: the assert of line 132, then
\* the indexing of lines 138-142, then the rest of __init__
InitConstruct ==
    /\ \E c \in ConstructorArguments :
         IF ~LengthsAgree(c.num_nodes, c.inv, c.ocl, c.lt)
         THEN Raised("AssertionError", c)
         ELSE IF \E a \in {c.inv, c.ocl, c.lt} : Len(a) < c.num_nodes
         THEN Raised("IndexError", c)
         ELSE /\ Construct(c.num_nodes, c.inv, c.ocl, c.lt, c.mxt, c.mt)
              /\ last = [op |-> "init", t |-> 0, args |-> c]
    /\ calls = 0
    /\ resets = 0
    /\ simulation = NoSimulation

\* a call of step on an engine the constructor returned
StepConstructed ==
    /\ last.op # "raise"
    /\ calls < MaxCalls
    /\ \E customer_demand \in 0..MaxDemand : step(customer_demand)
    /\ calls' = calls + 1
    /\ UNCHANGED <<resets, simulation>>

NextConstruct == StepConstructed

SpecConstruct == InitConstruct /\ [][NextConstruct]_vars

\* ------------------------------------------------------------------ places
\* number of positions of the sequence s that hold the unit h
CountIn(s, h) == Cardinality({j \in DOMAIN s : s[j] = h})

\* the units referenced by a queue whose entries hold the unit at position p
UnitsAt(q, p) == [j \in DOMAIN q |-> q[j][p]]

\* the units of the open batches of a node
BatchUnits(node) ==
    ConcatAll([b \in 1..Len(node.active_batches) |-> node.active_batches[b].units])

\* the delivered set: the units stamped as handed to the customer
Delivered == {h \in DOMAIN tracked_units :
                tracked_units[h].timeline.t_given_to_actual_customer # None}

\* the concatenation of the places that hold physical units: inventories,
\* inbound shipments, inbound orders, open batches and the demand queue of
\* the manufacturer (whose entries are turned into produced units)
PhysicalPlaces ==
    ConcatAll([k \in 1..num_nodes |->
        nodes[k].inventory_units
        \o UnitsAt(nodes[k].incoming_shipments, 2)
        \o UnitsAt(nodes[k].incoming_orders, 2)
        \o BatchUnits(nodes[k])
        \o (IF nodes[k].is_manufacturer THEN UnitsAt(nodes[k].customer_queue, 3) ELSE <<>>)])

\* the demand queues of the nodes that are not the manufacturer
DemandPlaces ==
    ConcatAll([k \in 1..num_nodes |->
        IF nodes[k].is_manufacturer THEN <<>> ELSE UnitsAt(nodes[k].customer_queue, 3)])

Occurrences(places, h) == CountIn(places, h) + (IF h \in Delivered THEN 1 ELSE 0)

\* ---------------------------------------------------------------------- C1
\* C1 as stated: after every step every unit ever created is in exactly one
\* place among the inventories, demand queues, inbound-order queues,
\* inbound-shipment queues, open batches and the delivered set, and the number
\* of units created is the sum of the sizes of those places.
C1_SingleOwnership ==
    last.op = "step" =>
        /\ \A h \in DOMAIN tracked_units :
              Occurrences(PhysicalPlaces \o DemandPlaces, h) = 1
        /\ Len(tracked_units) =
              Len(PhysicalPlaces) + Len(DemandPlaces) + Cardinality(Delivered)

\* C1 amended: not counting the demand queues of the nodes that are not the
\* manufacturer, every unit ever created is in at most one place among the
\* inventories, the manufacturer's demand queue, the inbound-order queues, the
\* inbound-shipment queues, the open batches and the delivered set; as long as
\* reset has not been called it is in exactly one, and the number of units
\* created is the sum of the sizes of those places.
C1_PhysicalOwnership ==
    /\ \A h \in DOMAIN tracked_units : Occurrences(PhysicalPlaces, h) <= 1
    /\ resets = 0 =>
         /\ \A h \in DOMAIN tracked_units : Occurrences(PhysicalPlaces, h) = 1
         /\ Len(tracked_units) = Len(PhysicalPlaces) + Cardinality(Delivered)

\* C1 witness: in a run without reset a step has left one demand unit waiting
\* in node 1's demand queue while it is also in an open batch, and another
\* unit has been delivered.
C1_Witness ==
    /\ last.op = "step"
    /\ resets = 0
    /\ num_nodes > 1
    /\ Delivered # {}
    /\ \E h \in DOMAIN tracked_units :
          /\ CountIn(UnitsAt(nodes[1].customer_queue, 3), h) = 1
          /\ CountIn(BatchUnits(nodes[num_nodes]), h) = 1

\* ---------------------------------------------------------------------- C2
\* C2: once is_finished() is true, a call of step leaves the tick, the nodes
\* (inventories, queues, open batches), the stats log, the demand history,
\* the tracked units and the metrics unchanged.
\* (Stated for the calls whose demand is not negative, so that a violation
\* does not rest on what a negative override does.)
C2_StepAfterFinishedIsNoOp ==
    [][(last'.op = "step" /\ last'.demand >= 0 /\ is_finished)
          => UNCHANGED observable]_vars

\* ---------------------------------------------------------------------- C3
\* C3: after reset the number of units every node has on hand (the inventory
\* level the stats report) is the initial inventory given at construction.
C3_ResetRestoresInventory ==
    last.op = "reset" =>
        \A k \in 1..num_nodes : Len(nodes[k].inventory_units) = initial_inventories[k]

\* ---------------------------------------------------------------------- C4
\* C4: after reset nothing is pending: every demand queue, inbound-order queue
\* and inbound-shipment queue is empty and no production batch is open.
C4_ResetLeavesNothingPending ==
    last.op = "reset" =>
        \A k \in 1..num_nodes :
            /\ nodes[k].customer_queue = <<>>
            /\ nodes[k].incoming_orders = <<>>
            /\ nodes[k].incoming_shipments = <<>>
            /\ nodes[k].active_batches = <<>>

\* ---------------------------------------------------------------------- C5
\* C5: a call of step with a negative demand override changes nothing: not the
\* tick, the stats log, the demand history, a queue, an inventory or a batch.
C5_NegativeDemandRejected ==
    [][(last'.op = "step" /\ last'.demand < 0) => UNCHANGED observable]_vars

\* ---------------------------------------------------------------------- C6
\* C6: for every chain length, when node 1 starts a tick with an empty demand
\* queue and at least d units on hand and d units are demanded in that tick,
\* the stats record of the tick shows node 1's inventory lower by exactly d
\* and its demand queue empty, and d units are handed over, stamped with that
\* tick.
C6_DeliveryFromStock ==
    (/\ last.op = "step"
     /\ last.demand >= 0
     /\ last.before.customer_queues[1] = <<>>
     /\ Len(last.before.inventories[1]) >= last.demand)
    => /\ stats[Len(stats)].inventories[1] =
              Len(last.before.inventories[1]) - last.demand
       /\ stats[Len(stats)].customer_queues[1] = 0
       /\ Len(last.delivered) = last.demand
       /\ \A j \in DOMAIN last.delivered :
              tracked_units[last.delivered[j]].timeline.t_given_to_actual_customer = last.t

\* ---------------------------------------------------------------------- C7
\* the (unit, requested_time) of the entries of a demand queue
DemandPairs(q) == [j \in DOMAIN q |-> <<q[j][3], q[j][4]>>]

\* C7: FIFO order.  In every step and for every node, the demand entries
\* fulfilled in the step (paired with an inventory unit, or drained into a
\* batch at the manufacturer), in the order they were processed, followed by
\* the entries left in the queue, are the entries the queue held before the
\* step followed by those enqueued in the step: an entry is fulfilled no later
\* than any entry enqueued after it, and before it within the tick.
C7_FifoOrder ==
    last.op = "step" =>
        \A k \in 1..num_nodes :
            last.served[k] \o DemandPairs(nodes[k].customer_queue)
              = DemandPairs(last.before.customer_queues[k] \o last.enqueued[k])

\* C7 witness: a node that is not the manufacturer has fulfilled the head of
\* its demand queue and left a later entry waiting, and the manufacturer has
\* drained two entries in one tick.
C7_Witness ==
    /\ last.op = "step"
    /\ \E k \in 1..num_nodes :
          /\ ~nodes[k].is_manufacturer
          /\ Len(last.served[k]) >= 1
          /\ nodes[k].customer_queue # <<>>
    /\ \E k \in 1..num_nodes : nodes[k].is_manufacturer /\ Len(last.served[k]) >= 2

\* ---------------------------------------------------------------------- C8
\* the node whose shipments arrive in node k's inbound-shipment queue
Sender(k) == IF num_nodes = 1 THEN 1 ELSE k + 1

InboundEntries ==
    UNION {Range(nodes[k].incoming_shipments) \cup Range(nodes[k].incoming_orders)
             : k \in 1..num_nodes}

TakenEntries ==
    UNION {Range(last.shipments[k]) \cup Range(last.orders[k]) : k \in 1..num_nodes}

\* C9: exact surfacing (step called once per tick, no reset).  An entry
\* scheduled for a tick later than the tick it was sent at (position 1 later
\* than position 3) is taken in by its target in the step of exactly the
\* scheduled tick: none is taken at another tick, and none whose scheduled
\* tick has been stepped is still waiting in an inbound queue.
C9_ExactSurfacing ==
    /\ last.op = "step" =>
          \A e \in TakenEntries : e[1] > e[3] => e[1] = last.t
    /\ \A e \in InboundEntries : e[1] > e[3] => e[1] >= time

\* C9 witness: a node has taken in two orders scheduled for this tick with a
\* lag of at least one tick while a later order is still waiting behind them.
C9_Witness ==
    /\ last.op = "step"
    /\ \E k \in 1..num_nodes :
          /\ Len(last.orders[k]) >= 2
          /\ \A j \in DOMAIN last.orders[k] : last.orders[k][j][1] > last.orders[k][j][3]
          /\ nodes[k].incoming_orders # <<>>

\* --------------------------------------------------------------------- C10
\* C10: production timing (production time >= 1).  A batch opened at tick t
\* has completion tick t + P.  A batch is closed in the step of exactly its
\* completion tick: the batches a step closes have completion tick = the
\* step's tick, and no batch left open has a completion tick that has been
\* stepped.  At closing each unit of the batch is stamped manufacturing
\* completed = t + P and is in the downstream node's inbound-shipment queue
\* with scheduled arrival t + P + the manufacturer's transit lag, and the
\* batch is no longer open.
C10_ProductionTiming ==
    LET mf == nodes[num_nodes]
        d  == Downstream(num_nodes, num_nodes)
    IN manufacturing_time >= 1 =>
        /\ \A b \in Range(mf.active_batches) :
              b.end = b.start + manufacturing_time /\ b.end >= time
        /\ last.op = "step" =>
              /\ \A b \in Range(last.opened) :
                    b.start = last.t /\ b \in Range(mf.active_batches)
              /\ \A b \in Range(last.closed) :
                    /\ b.end = last.t
                    /\ b.end = b.start + manufacturing_time
                    /\ b \notin Range(mf.active_batches)
                    /\ \A j \in DOMAIN b.units :
                          /\ tracked_units[b.units[j]].timeline.t_manufacturing_completed
                                = b.start + manufacturing_time
                          /\ <<b.start + manufacturing_time + mf.lag_time, b.units[j],
                               b.end, b.requested_times[j]>>
                                \in Range(nodes[d].incoming_shipments)

\* C10 witness: with production time 2 a step closes a batch of two units
\* that was opened two ticks earlier.
C10_Witness ==
    /\ last.op = "step"
    /\ manufacturing_time = 2
    /\ \E b \in Range(last.closed) : Len(b.units) = 2 /\ b.start = last.t - 2

\* --------------------------------------------------------------------- C11
\* MetricsLogger.compute_cycle_times, lines 58-68: the two series over the
\* rows of the metrics log, in row order.  A row counts in the node-1 series
\* when its customer_delivered is a pair, and in the full series when in
\* addition its customer_request is set.
compute_cycle_times(m) ==
    LET delivered_tuples == SelectSeq(m, LAMBDA r : r.customer_delivered # NoPair)
        requested == SelectSeq(m, LAMBDA r : r.customer_request # None
                                              /\ r.customer_delivered # NoPair)
    IN [customer_node1_cycle |->
            [j \in DOMAIN delivered_tuples |->
                delivered_tuples[j].customer_delivered[1]
                  - delivered_tuples[j].customer_delivered[2]],
        full_cycle |->
            [j \in DOMAIN requested |->
                requested[j].customer_delivered[1] - requested[j].customer_request]]

\* C11: cycle-time equality.  In every analytics pass the node-1 cycle series
\* and the full cycle series are the same sequence, and for every delivered
\* unit the request tick recorded with its delivery is the unit's own
\* customer-demand tick.
C11_CycleTimeEquality ==
    /\ compute_cycle_times(metrics).customer_node1_cycle
         = compute_cycle_times(metrics).full_cycle
    /\ \A j \in DOMAIN metrics :
          metrics[j].customer_delivered # NoPair =>
              metrics[j].customer_delivered[2] = metrics[j].customer_request

\* --------------------------------------------------------------------- C12
\* the rows of the metrics log added under an identifier
RowsOf(unit_id) == {j \in DOMAIN metrics : metrics[j].unit_id = unit_id}

\* C12: unit identity.  After any sequence of step and reset calls the
\* tracked units have pairwise distinct identifiers and every identifier has
\* exactly one row in the metrics log.
C12_UnitIdentity ==
    /\ \A g, h \in DOMAIN tracked_units :
          g # h => tracked_units[g].id # tracked_units[h].id
    /\ \A h \in DOMAIN tracked_units :
          Cardinality(RowsOf(tracked_units[h].id)) = 1

\* --------------------------------------------------------------------- C13
\* the stages of a timeline the engine writes, in stage order
StageOrder ==
    <<"t_demand_actual_customer", "t_order_to_supplier", "t_order_arrived_at_supplier",
      "t_manufacturing_completed", "t_given_to_actual_customer">>

\* C13: timeline monotonicity.  In every reachable state and for every tracked
\* unit, the timestamps that are set are non-decreasing along the stage order
\* demand raised, order sent, order arrived, manufacturing completed, handed
\* to the end customer.
C13_TimelineMonotonic ==
    \A h \in DOMAIN tracked_units :
        \A i, j \in DOMAIN StageOrder :
            (/\ i < j
             /\ tracked_units[h].timeline[StageOrder[i]] # None
             /\ tracked_units[h].timeline[StageOrder[j]] # None)
            => tracked_units[h].timeline[StageOrder[i]]
                  <= tracked_units[h].timeline[StageOrder[j]]

\* --------------------------------------------------------------------- C14
\* C14: constructing the engine with initial_inventories, order_comm_lags or
\* lag_times whose length differs from num_nodes fails at construction, and
\* then no node and no tracked unit (and no metrics row) has been created;
\* an engine that exists has num_nodes nodes and num_nodes inventories.
C14_LengthMismatchRejected ==
    /\ (/\ last.op \in {"init", "raise"}
        /\ \E a \in {last.args.inv, last.args.ocl, last.args.lt} :
              Len(a) # last.args.num_nodes)
       => /\ last.op = "raise"
          /\ nodes = <<>>
          /\ tracked_units = <<>>
          /\ metrics = <<>>
    /\ last.op # "raise" =>
          /\ Len(nodes) = num_nodes
          /\ Len(initial_inventories) = num_nodes

\* C14 witness: construction has failed on arguments whose inventories have
\* the right length and whose lag arrays are longer than the node count.
C14_Witness ==
    /\ last.op = "raise"
    /\ Len(last.args.inv) = last.args.num_nodes
    /\ Len(last.args.ocl) > last.args.num_nodes
    /\ Len(last.args.lt) > last.args.num_nodes

\* --------------------------------------------------------------------- C15
\* C15: constructing the engine with a non-positive manufacturing time or a
\* non-positive horizon fails: an engine that exists, and can be stepped, has
\* a manufacturing time >= 1 and a horizon >= 1.
\* (Stated for the production time and the horizon, so that a violation does
\* not rest on a lag of 0.)
C15_NonPositiveRejected ==
    last.op \in {"init", "step"} => manufacturing_time >= 1 /\ max_time >= 1

\* --------------------------------------------------------------------- C16
\* the units node k had on hand in the last step after it received that
\* tick's shipments
OnHandAfterReceipt(k) == Len(last.before.inventories[k]) + Len(last.shipments[k])

\* C16: no negative inventory and no over-fulfilment.  The inventory count
\* of every node, in the state and in every stats record, is >= 0; in every
\* step a node that is not the manufacturer fulfils no more demand entries
\* than it had units on hand after receiving the tick's shipments, and is
\* left with exactly the difference (the manufacturer keeps all it has).
C16_NoOverFulfilment ==
    /\ \A k \in 1..num_nodes : Len(nodes[k].inventory_units) >= 0
    /\ \A r \in Range(stats) : \A k \in DOMAIN r.inventories : r.inventories[k] >= 0
    /\ last.op = "step" =>
          \A k \in 1..num_nodes :
              IF nodes[k].is_manufacturer
              THEN Len(nodes[k].inventory_units) = OnHandAfterReceipt(k)
              ELSE /\ Len(last.served[k]) <= OnHandAfterReceipt(k)
                   /\ Len(nodes[k].inventory_units)
                         = OnHandAfterReceipt(k) - Len(last.served[k])
                   /\ stats[Len(stats)].inventories[k]
                         = OnHandAfterReceipt(k) - Len(last.served[k])

\* C16 witness: a node that is not the manufacturer received units in the
\* step, fulfilled as many demand entries as it had units on hand, and still
\* has demand waiting with its inventory at zero.
C16_Witness ==
    /\ last.op = "step"
    /\ \E k \in 1..num_nodes :
          /\ ~nodes[k].is_manufacturer
          /\ Len(last.shipments[k]) >= 1
          /\ Len(last.served[k]) = OnHandAfterReceipt(k)
          /\ nodes[k].inventory_units = <<>>
          /\ nodes[k].customer_queue # <<>>

\* --------------------------------------------------------------------- C17
\* the units node k (not the manufacturer) sent on in the last step: handed
\* to the customer by node 1, appended to node k-1's inbound shipments otherwise
ShippedBy(k) == IF k = 1 THEN last.delivered ELSE UnitsAt(last.sent[k - 1], 2)

\* the demand entries node k could fulfil in the last step: those waiting
\* before the step and those enqueued in it
Pending(k) == last.before.customer_queues[k] \o last.enqueued[k]

\* C17: receive before fulfil.  When a node that is not the manufacturer
\* starts a step with no inventory, the units it receives in the step are
\* fulfilled from in the same step: as many of them as there are pending
\* demand entries, oldest arrival first, are shipped downstream with sent
\* tick t, or at node 1 handed to the customer and stamped t.
C17_ReceiveBeforeFulfil ==
    last.op = "step" =>
        \A k \in 1..num_nodes :
            (~nodes[k].is_manufacturer /\ last.before.inventories[k] = <<>>) =>
                LET received == UnitsAt(last.shipments[k], 2)
                    m == IF Len(received) <= Len(Pending(k))
                         THEN Len(received) ELSE Len(Pending(k))
                IN /\ ShippedBy(k) = SubSeq(received, 1, m)
                   /\ IF k = 1
                      THEN \A j \in DOMAIN last.delivered :
                              tracked_units[last.delivered[j]].timeline.t_given_to_actual_customer
                                 = last.t
                      ELSE \A j \in DOMAIN last.sent[k - 1] :
                              /\ last.sent[k - 1][j][3] = last.t
                              /\ last.sent[k - 1][j] \in Range(nodes[k - 1].incoming_shipments)

\* C17 witness: in one step of a three-node chain node 2 and node 1 both start
\* without inventory, receive a unit and pass it on in the same tick.
C17_Witness ==
    /\ last.op = "step"
    /\ num_nodes = 3
    /\ \A k \in 1..2 :
          /\ last.before.inventories[k] = <<>>
          /\ last.shipments[k] # <<>>
          /\ ShippedBy(k) = UnitsAt(last.shipments[k], 2)

\* --------------------------------------------------------------------- C18
\* the units appended to the inbound-shipment queues of the nodes other than
\* node k in the last step
SentElsewhere(k) ==
    ConcatAll([d \in 1..num_nodes |->
                  IF d = k THEN <<>> ELSE UnitsAt(last.sent[d], 2)])

\* C18: no zero-collapse of transit.  A unit shipped to node k during the
\* step of tick t (by node k+1, or released by the manufacturer) is, at the
\* end of that step, still in node k's inbound-shipment queue, even when its
\* scheduled arrival is t: it is not in node k's inventory, it has not been
\* shipped onward to another node and it has not been delivered.  A unit
\* advances at most one node per tick.
C18_NoZeroCollapse ==
    last.op = "step" =>
        \A k \in 1..num_nodes :
            \A j \in DOMAIN last.sent[k] :
                LET e == last.sent[k][j]
                IN /\ e \in Range(nodes[k].incoming_shipments)
                   /\ CountIn(nodes[k].inventory_units, e[2]) = 0
                   /\ CountIn(SentElsewhere(k), e[2]) = 0
                   /\ CountIn(last.delivered, e[2]) = 0
                   /\ CountIn(UnitsAt(last.sent[k], 2), e[2]) = 1
                   /\ tracked_units[e[2]].timeline.t_given_to_actual_customer = None

\* C18 witness: a unit was shipped with transit lag 0 (scheduled arrival = the
\* tick of the step) to a node that is not the manufacturer, has no inventory
\* and has demand waiting; the unit is still in transit.
C18_Witness ==
    /\ last.op = "step"
    /\ \E k \in 1..num_nodes :
          /\ ~nodes[k].is_manufacturer
          /\ nodes[k].inventory_units = <<>>
          /\ nodes[k].customer_queue # <<>>
          /\ \E e \in Range(last.sent[k]) : e[1] = last.t

\* --------------------------------------------------------------------- C19
\* the units created by a demand (not pre-seeded)
DemandUnits == {h \in DOMAIN tracked_units :
                  tracked_units[h].timeline.t_demand_actual_customer # None}

\* the sum of the order-communication lags of nodes 1..k
RECURSIVE LagSum(_)
LagSum(k) == IF k = 0 THEN 0 ELSE nodes[k].order_comm_lag + LagSum(k - 1)

\* the tick at which the order for unit h is due at node k
OrderDue(h, k) == tracked_units[h].timeline.t_demand_actual_customer + LagSum(k - 1)

\* the metrics row of unit h
RowOfUnit(h) == metrics[unit_id_to_idx(metrics, tracked_units[h].id)]

\* C19: order propagation in a chain of N >= 2 nodes (one run: step called
\* once per tick, no reset).  The order for a demand unit raised at tick t is
\* enqueued into the demand queue of each node k in 2..N at exactly tick
\* t + the order lags of nodes 1..k-1, and not before: once that tick has
\* been stepped the metrics log records it as the tick of the order at node
\* k, and until then records none.  Every entry a step enqueues at node k is
\* due in that tick and is enqueued once.  A node k < N forwards it in the
\* same tick: the order, sent at that tick and scheduled for that tick + the
\* node's order lag, is in node k+1's inbound orders or was taken in by node
\* k+1 in the same step.  The manufacturer forwards nothing: the unit keeps
\* the stamps of node N-1's order and is in no inbound-order queue.
C19_OrderPropagation ==
    num_nodes >= 2 =>
      /\ \A h \in DemandUnits : \A k \in 2..num_nodes :
            RowOfUnit(h).order_to_node[k] =
                (IF OrderDue(h, k) < time THEN OrderDue(h, k) ELSE None)
      /\ last.op = "step" =>
            \A k \in 2..num_nodes : \A j \in DOMAIN last.enqueued[k] :
                LET h == last.enqueued[k][j][3]
                IN /\ OrderDue(h, k) = last.t
                   /\ CountIn(UnitsAt(last.enqueued[k], 3), h) = 1
                   /\ IF k < num_nodes
                      THEN /\ <<last.t + nodes[k].order_comm_lag, h, last.t>>
                                \in (Range(nodes[k + 1].incoming_orders)
                                       \cup Range(last.orders[k + 1]))
                           /\ tracked_units[h].timeline.t_order_to_supplier = last.t
                      ELSE /\ tracked_units[h].timeline.t_order_arrived_at_supplier = last.t
                           /\ tracked_units[h].timeline.t_order_to_supplier
                                 = last.t - nodes[k - 1].order_comm_lag
                           /\ \A d \in 1..num_nodes :
                                 CountIn(UnitsAt(nodes[d].incoming_orders, 2), h) = 0

\* C19 witness: in a three-node chain with order lags of one tick at nodes 1
\* and 2, the manufacturer enqueues an order two ticks after the demand was
\* raised, while node 2 enqueues and forwards a younger one.
C19_Witness ==
    /\ last.op = "step"
    /\ num_nodes = 3
    /\ nodes[1].order_comm_lag = 1
    /\ nodes[2].order_comm_lag = 1
    /\ \E e \in Range(last.enqueued[3]) :
          tracked_units[e[3]].timeline.t_demand_actual_customer = last.t - 2
    /\ \E e \in Range(last.enqueued[2]) :
          <<last.t + 1, e[3], last.t>> \in Range(nodes[3].incoming_orders)

\* --------------------------------------------------------------------- C20
\* the units placed into the batches opened by the last step, in batch order
PlacedInBatches ==
    ConcatAll([b \in 1..Len(last.opened) |-> last.opened[b].units])

\* C20: batch membership.  In every reachable state a unit is in at most one
\* open batch (and only the manufacturer has batches).  The units a step
\* places into batches are exactly the entries it dequeues from the
\* manufacturer's demand queue, in order, each placed once; such a unit was
\* in no open batch before and has never been through a closed one (it has
\* no completion stamp), so a unit is placed into a batch at most once.
C20_BatchMembership ==
    LET mf == nodes[num_nodes]
    IN /\ \A h \in DOMAIN tracked_units : CountIn(BatchUnits(mf), h) <= 1
       /\ \A k \in 1..(num_nodes - 1) : nodes[k].active_batches = <<>>
       /\ last.op = "step" =>
             /\ PlacedInBatches = UnitsAt(last.served[num_nodes], 1)
             /\ PlacedInBatches =
                   UnitsAt(last.before.customer_queues[num_nodes]
                             \o last.enqueued[num_nodes], 3)
             /\ mf.customer_queue = <<>>
             /\ \A j \in DOMAIN PlacedInBatches :
                   /\ CountIn(PlacedInBatches, PlacedInBatches[j]) = 1
                   /\ CountIn(BatchUnits(mf), PlacedInBatches[j]) = 1
                   /\ tracked_units[PlacedInBatches[j]].timeline.t_manufacturing_completed
                         = None
                   /\ \A b \in Range(last.closed) :
                         CountIn(b.units, PlacedInBatches[j]) = 0

\* C20 witness: a step places two units into a batch while a batch opened in
\* an earlier tick is still open.
C20_Witness ==
    /\ last.op = "step"
    /\ \E b \in Range(last.opened) : Len(b.units) = 2
    /\ \E b \in Range(nodes[num_nodes].active_batches) :
          b.start < last.t /\ Len(b.units) >= 1

\* --------------------------------------------------------------------- C21
\* C21: production drains all queued demand.  After every step the
\* manufacturer's demand queue is empty and every stats record shows its size
\* as 0; every entry that was queued at the manufacturer before the step or
\* enqueued in it is, in order, in a batch opened by the step, whose start is
\* the tick and whose completion is the tick + the production time.
C21_ProductionDrainsQueue ==
    /\ nodes[num_nodes].customer_queue = <<>>
    /\ \A r \in Range(stats) : r.customer_queues[num_nodes] = 0
    /\ last.op = "step" =>
          /\ PlacedInBatches =
                UnitsAt(last.before.customer_queues[num_nodes]
                          \o last.enqueued[num_nodes], 3)
          /\ \A b \in Range(last.opened) :
                /\ b.start = last.t
                /\ b.end = last.t + manufacturing_time
                /\ b \in Range(nodes[num_nodes].active_batches)

\* C21 witness: in a chain of several nodes two orders were enqueued at the
\* manufacturer in one step and the stats record of the tick shows its
\* demand queue empty.
C21_Witness ==
    /\ last.op = "step"
    /\ num_nodes >= 2
    /\ Len(last.enqueued[num_nodes]) >= 2
    /\ stats[Len(stats)].customer_queues[num_nodes] = 0

\* --------------------------------------------------------------------- C22
\* the units node k could ship in the last step: its inventory before the
\* step followed by the units received in it
Available(k) == last.before.inventories[k] \o UnitsAt(last.shipments[k], 2)

\* C22: fulfilment stops on exhausted inventory.  At the end of every step
\* and for every node that is not the manufacturer, the demand queue or the
\* inventory is empty; with m the number of entries fulfilled, the queue left
\* is the pending entries without the first m, unchanged and in order, the
\* entries fulfilled are the first m, the units shipped are the first m units
\* of the inventory (one head unit per entry) and the inventory left is the
\* rest.
C22_FulfilmentStops ==
    last.op = "step" =>
        \A k \in 1..num_nodes :
            ~nodes[k].is_manufacturer =>
                LET m == Len(last.served[k])
                IN /\ nodes[k].customer_queue = <<>> \/ nodes[k].inventory_units = <<>>
                   /\ m <= Len(Pending(k))
                   /\ m <= Len(Available(k))
                   /\ nodes[k].customer_queue = SubSeq(Pending(k), m + 1, Len(Pending(k)))
                   /\ last.served[k] = DemandPairs(SubSeq(Pending(k), 1, m))
                   /\ ShippedBy(k) = SubSeq(Available(k), 1, m)
                   /\ nodes[k].inventory_units
                         = SubSeq(Available(k), m + 1, Len(Available(k)))

\* C22 witness: a node that is not the manufacturer fulfilled the head of its
\* demand queue, ran out of inventory and left a later entry waiting.
C22_Witness ==
    /\ last.op = "step"
    /\ \E k \in 1..num_nodes :
          /\ ~nodes[k].is_manufacturer
          /\ Len(last.served[k]) >= 1
          /\ nodes[k].inventory_units = <<>>
          /\ nodes[k].customer_queue # <<>>
          /\ Len(Pending(k)) > Len(Available(k))

\* --------------------------------------------------------------------- C23
\* C23: tick and log bookkeeping (an engine that is only stepped).  After k
\* calls of step since construction the tick is k, the stats log holds k
\* records whose time fields are 0, 1, .., k-1 in order, the demand history
\* holds k values, the last of them the demand of the last call, and
\* is_finished() is true exactly when k >= max_time.
C23_TickAndLogs ==
    /\ time = calls
    /\ Len(stats) = calls
    /\ \A j \in DOMAIN stats : stats[j].time = j - 1
    /\ Len(customer_demand_history) = calls
    /\ last.op = "step" =>
          /\ last.t = calls - 1
          /\ customer_demand_history[calls] = last.demand
    /\ is_finished <=> calls >= max_time

\* C23 witness: step has been called once more than the horizon.
C23_Witness ==
    /\ last.op = "step"
    /\ calls = max_time + 1
    /\ is_finished
    /\ Len(stats) = max_time + 1

\* --------------------------------------------------------------------- C24
\* the inventory position of node i (not the manufacturer): what it has on
\* hand, what is in transit to it and what it has on order upstream (orders
\* in flight to node i+1, demand waiting at node i+1, units in production when
\* node i+1 is the manufacturer), less the demand it owes
InventoryPosition(i) ==
    Len(nodes[i].inventory_units)
    + Len(nodes[i].incoming_shipments)
    + Len(nodes[i + 1].incoming_orders)
    + Len(nodes[i + 1].customer_queue)
    + (IF nodes[i + 1].is_manufacturer THEN Len(BatchUnits(nodes[i + 1])) ELSE 0)
    - Len(nodes[i].customer_queue)

\* C24: base-stock invariant.  In a chain of N >= 2 nodes stepped without
\* reset, at the end of every step (and at construction) the inventory
\* position of every node that is not the manufacturer equals its initial
\* inventory.
C24_BaseStock ==
    num_nodes >= 2 =>
        \A i \in 1..(num_nodes - 1) : InventoryPosition(i) = initial_inventories[i]

\* C24 witness: in a three-node chain node 1 owes demand while a shipment is
\* in transit to it and an order of its is in flight to node 2, and a unit is
\* in production for node 2.
C24_Witness ==
    /\ last.op = "step"
    /\ num_nodes = 3
    /\ nodes[1].customer_queue # <<>>
    /\ nodes[1].incoming_shipments # <<>>
    /\ nodes[2].incoming_orders # <<>>
    /\ BatchUnits(nodes[3]) # <<>>

\* --------------------------------------------------------------------- C25
\* the sum of the transit lags of nodes k..num_nodes
RECURSIVE TransitSum(_)
TransitSum(k) == IF k > num_nodes THEN 0 ELSE nodes[k].lag_time + TransitSum(k + 1)

\* the response bound of the chain: the order lags of nodes 1..N-1, the
\* production time and the transit lags of nodes 2..N
ResponseBound == LagSum(num_nodes - 1) + manufacturing_time + TransitSum(2)

\* C25: bounded response.  In a chain of N >= 2 nodes with production time
\* >= 1 and transit lags >= 1, stepped once per tick without reset, a demand
\* entry injected at node 1 at tick t is fulfilled no later than tick t + the
\* response bound: an entry still waiting at node 1 after the step of tick T
\* has t + bound > T, and an entry fulfilled in the step of tick T has
\* t + bound >= T, one unit being handed over per entry fulfilled.
C25_BoundedResponse ==
    (/\ num_nodes >= 2
     /\ manufacturing_time >= 1
     /\ \A k \in 2..num_nodes : nodes[k].lag_time >= 1)
    => /\ \A e \in Range(nodes[1].customer_queue) : e[4] + ResponseBound >= time
       /\ last.op = "step" =>
             /\ \A j \in DOMAIN last.served[1] :
                   last.served[1][j][2] + ResponseBound >= last.t
             /\ Len(last.delivered) = Len(last.served[1])

\* C25 witness: in a three-node chain with order lags of one tick and
\* production time 2 a demand entry is fulfilled at exactly its deadline, six
\* or more ticks after it was raised.
C25_Witness ==
    /\ last.op = "step"
    /\ num_nodes = 3
    /\ ResponseBound >= 6
    /\ \E j \in DOMAIN last.served[1] :
          last.served[1][j][2] + ResponseBound = last.t

\* --------------------------------------------------------------------- C26
\* the physical locations that hold unit h: a kind of place and the node
PlacesOf(h) ==
    {<<"inventory", k>> : k \in {k \in 1..num_nodes :
          CountIn(nodes[k].inventory_units, h) > 0}}
    \cup {<<"inbound shipments", k>> : k \in {k \in 1..num_nodes :
          CountIn(UnitsAt(nodes[k].incoming_shipments, 2), h) > 0}}
    \cup {<<"inbound orders", k>> : k \in {k \in 1..num_nodes :
          CountIn(UnitsAt(nodes[k].incoming_orders, 2), h) > 0}}
    \cup {<<"open batch", k>> : k \in {k \in 1..num_nodes :
          CountIn(BatchUnits(nodes[k]), h) > 0}}
    \cup {<<"manufacturer demand", k>> : k \in {k \in 1..num_nodes :
          nodes[k].is_manufacturer
          /\ CountIn(UnitsAt(nodes[k].customer_queue, 3), h) > 0}}
    \cup (IF h \in Delivered THEN {<<"delivered", 0>>} ELSE {})

\* C26: physical-location conservation (no reset).  Ignoring the demand
\* queues of the nodes that are not the manufacturer, after every step each
\* created unit is in exactly one location (an inbound-order queue, the
\* manufacturer's demand queue, an open batch, an inbound-shipment queue, an
\* inventory, or delivered) and at one position in it; the units a step
\* creates are in one location too, and no unit has left all of them.
C26_PhysicalLocation ==
    /\ \A h \in DOMAIN tracked_units :
          /\ Cardinality(PlacesOf(h)) = 1
          /\ h \notin Delivered => CountIn(PhysicalPlaces, h) = 1
          /\ h \in Delivered => CountIn(PhysicalPlaces, h) = 0
    /\ \A h \in Range(PhysicalPlaces) : h \in DOMAIN tracked_units

\* C26 witness: after a step a demand-created unit has been delivered while
\* another is in transit to a node and a third is in an open batch.
C26_Witness ==
    /\ last.op = "step"
    /\ \E h \in Delivered : h \in DemandUnits
    /\ \E h \in DemandUnits : \E k \in 1..num_nodes :
          <<"inbound shipments", k>> \in PlacesOf(h)
    /\ \E h \in DemandUnits : \E k \in 1..num_nodes :
          <<"open batch", k>> \in PlacesOf(h)

\* --------------------------------------------------------------------- C27
\* C27: single-node chain.  With num_nodes = 1 the only node is the
\* manufacturer.  In every step the units demanded are drained from its
\* demand queue into a batch, the units of the batches closed are appended to
\* its own inbound-shipment queue, nothing is fulfilled from inventory: no
\* unit is handed over or has a handed-to-customer stamp, and the inventory
\* is what it was before the step followed by the units received.
C27_SingleNode ==
    num_nodes = 1 =>
      /\ nodes[1].is_manufacturer
      /\ nodes[1].customer_queue = <<>>
      /\ Delivered = {}
      /\ \A r \in Range(metrics) : r.customer_delivered = NoPair
      /\ last.op = "step" =>
            /\ last.delivered = <<>>
            /\ PlacedInBatches = last.created
            /\ last.sent[1] =
                  ConcatAll([b \in 1..Len(last.closed) |->
                                BatchShipments(last.closed[b], nodes[1].lag_time)])
            /\ \A e \in Range(last.sent[1]) : e \in Range(nodes[1].incoming_shipments)
            /\ nodes[1].inventory_units
                  = last.before.inventories[1] \o UnitsAt(last.shipments[1], 2)

\* C27 witness: a single node that was seeded with stock and has demand in
\* the step receives a unit it produced itself into its inventory.
C27_Witness ==
    /\ last.op = "step"
    /\ num_nodes = 1
    /\ initial_inventories[1] >= 1
    /\ last.demand >= 1
    /\ last.shipments[1] # <<>>
    /\ Len(nodes[1].inventory_units) > initial_inventories[1]

\* --------------------------------------------------------------------- C28
\* the handles of the units pre-seeded at node k, in seeding order
SeededAt(k) ==
    SelectSeq([h \in 1..Len(tracked_units) |-> h],
              LAMBDA h : /\ Len(tracked_units[h].id) = 3
                         /\ tracked_units[h].id[1] = "init"
                         /\ tracked_units[h].id[2] = k)

\* C28: the manufacturer's stock is never used.  In a chain of N >= 2 nodes
\* the manufacturer's inventory is always its pre-seeded units and its
\* inbound-shipment queue is always empty: no step receives into it or ships
\* to it, every stats record shows its inventory at the initial count, and
\* its pre-seeded units are in no other place and are not delivered.
C28_ManufacturerStockUnused ==
    num_nodes >= 2 =>
      /\ nodes[num_nodes].inventory_units = SeededAt(num_nodes)
      /\ Len(nodes[num_nodes].inventory_units) = initial_inventories[num_nodes]
      /\ nodes[num_nodes].incoming_shipments = <<>>
      /\ \A r \in Range(stats) :
            /\ r.inventories[num_nodes] = initial_inventories[num_nodes]
            /\ r.incoming_shipments[num_nodes] = 0
      /\ \A h \in Range(SeededAt(num_nodes)) :
            /\ h \notin Delivered
            /\ CountIn(PhysicalPlaces, h) = 1
            /\ RowOfUnit(h).customer_delivered = NoPair
      /\ last.op = "step" =>
            /\ last.sent[num_nodes] = <<>>
            /\ last.shipments[num_nodes] = <<>>
            /\ last.before.inventories[num_nodes] = nodes[num_nodes].inventory_units

\* C28 witness: the manufacturer of a chain of several nodes closes a batch
\* while the node below it has demand waiting and no inventory, and the
\* manufacturer's pre-seeded unit is still on its shelf.
C28_Witness ==
    /\ last.op = "step"
    /\ num_nodes >= 2
    /\ last.closed # <<>>
    /\ nodes[num_nodes - 1].customer_queue # <<>>
    /\ nodes[num_nodes - 1].inventory_units = <<>>
    /\ Len(nodes[num_nodes].inventory_units) >= 1

\* --------------------------------------------------------------------- C29
\* C29: bounded open batches (production time P >= 1, step called once per
\* tick, no reset).  A step opens at most one batch; it opens one exactly
\* when orders became visible at the manufacturer in the tick, and the batch
\* holds all of them, in order.  At the end of every step the open batches
\* were opened at distinct ticks, none more than P - 1 ticks ago, so that
\* their number is at most P.
C29_BoundedOpenBatches ==
    LET mf == nodes[num_nodes]
    IN manufacturing_time >= 1 =>
        /\ Len(mf.active_batches) <= manufacturing_time
        /\ \A a, b \in DOMAIN mf.active_batches :
              a < b => mf.active_batches[a].start < mf.active_batches[b].start
        /\ \A b \in Range(mf.active_batches) :
              b.start < time /\ b.start + manufacturing_time >= time
        /\ last.op = "step" =>
              /\ Len(last.opened) <= 1
              /\ Len(last.opened) = 1 <=> last.enqueued[num_nodes] # <<>>
              /\ \A b \in Range(last.opened) :
                    b.units = UnitsAt(last.enqueued[num_nodes], 3)

\* C29 witness: with production time 2 a step closes a batch and opens one
\* holding two orders, and two batches are open at its end.
C29_Witness ==
    /\ last.op = "step"
    /\ manufacturing_time = 2
    /\ last.closed # <<>>
    /\ \E b \in Range(last.opened) : Len(b.units) >= 2
    /\ Len(nodes[num_nodes].active_batches) = 2

\* --------------------------------------------------------------------- C30
\* the order in which units can be handed to the customer: the pre-seeded
\* units of nodes 1..N-1, node by node in seeding order, then the units
\* created by demands, in creation order
DeliveryOrder ==
    ConcatAll([k \in 1..(num_nodes - 1) |-> SeededAt(k)])
    \o SelectSeq([h \in 1..Len(tracked_units) |-> h], LAMBDA h : h \in DemandUnits)

\* C30: global delivery order (chain of N >= 2 nodes, no reset).  The
\* demand-created units are created in the order of their (tick, index).
\* After every step the units delivered so far are the first units of the
\* delivery order, their delivery ticks do not decrease along it, and the
\* units the step handed over are, in the order of the hand-over, the next
\* ones of the delivery order, each the head of node 1's inventory at its
\* turn.
C30_GlobalDeliveryOrder ==
    num_nodes >= 2 =>
      LET n == Cardinality(Delivered)
      IN /\ \A g, h \in DemandUnits :
               g < h => \/ tracked_units[g].id[2] < tracked_units[h].id[2]
                        \/ /\ tracked_units[g].id[2] = tracked_units[h].id[2]
                           /\ tracked_units[g].id[3] < tracked_units[h].id[3]
         /\ n <= Len(DeliveryOrder)
         /\ Delivered = Range(SubSeq(DeliveryOrder, 1, n))
         /\ \A a, b \in 1..n :
               a < b =>
                  tracked_units[DeliveryOrder[a]].timeline.t_given_to_actual_customer
                    <= tracked_units[DeliveryOrder[b]].timeline.t_given_to_actual_customer
         /\ last.op = "step" =>
               /\ last.delivered
                     = SubSeq(DeliveryOrder, n - Len(last.delivered) + 1, n)
               /\ last.delivered = SubSeq(Available(1), 1, Len(last.delivered))

\* C30 witness: in a three-node chain seeded with one unit per node, the
\* pre-seeded units of nodes 1 and 2 have been delivered and a step hands
\* over a demand-created unit for a demand entry that carries another unit.
C30_Witness ==
    /\ last.op = "step"
    /\ num_nodes = 3
    /\ initial_inventories = <<1, 1, 1>>
    /\ Range(SeededAt(1)) \cup Range(SeededAt(2)) \subseteq Delivered
    /\ \E j \in DOMAIN last.delivered :
          /\ last.delivered[j] \in DemandUnits
          /\ last.delivered[j] # last.served[1][j][1]

\* ===================================================== single-stage shop
\* The Simulation of src/main.py: one shop with a capped inventory, a queue
\* of shipments ordered from the manufacturer and a queue of waiting
\* customers.  A shipment is the pair <<arrival_time, quantity>>, a Customer
\* the pair <<arrival_time, demand>>.

\* the attributes of the multi-node engine, which the shop never touches
engine == <<num_nodes, initial_inventories, manufacturing_time, max_time, nodes,
            time, stats, customer_demand_history, tracked_units, metrics>>

\* no MultiNodeSimulation has been constructed
NoEngine ==
    /\ num_nodes = 0
    /\ initial_inventories = <<>>
    /\ manufacturing_time = None
    /\ max_time = None
    /\ nodes = <<>>
    /\ time = None
    /\ stats = <<>>
    /\ customer_demand_history = <<>>
    /\ tracked_units = <<>>
    /\ metrics = <<>>

\* Python's min of two integers
Min(a, b) == IF a <= b THEN a ELSE b

\* Inventory.__init__: the inventory starts full
Inventory(max_capacity) == [max_capacity |-> max_capacity, current |-> max_capacity]

\* Inventory.remove: the inventory afterwards and the value returned
remove(inventory, quantity) ==
    LET removed == Min(inventory.current, quantity)
    IN [inventory |-> [inventory EXCEPT !.current = @ - removed],
        returned |-> removed]

\* mutant of add: the quantity is added without regard to the free space
add_uncapped(inventory, quantity) ==
    [inventory |-> [inventory EXCEPT !.current = @ + quantity],
     returned |-> quantity]

\* Inventory.add: the inventory afterwards and the value returned
add(inventory, quantity) ==
    LET space == inventory.max_capacity - inventory.current
        added == Min(space, quantity)
    IN [inventory |-> [inventory EXCEPT !.current = @ + added],
        returned |-> added]

\* ProductQueue.add_shipment
add_shipment(queue, arrival_time, quantity) == Append(queue, <<arrival_time, quantity>>)

\* the number of leading shipments with arrival_time <= current_time
RECURSIVE ReadyShipments(_, _)
ReadyShipments(queue, current_time) ==
    IF queue # <<>> /\ queue[1][1] <= current_time
    THEN 1 + ReadyShipments(Tail(queue), current_time)
    ELSE 0

\* ProductQueue.pop_ready_shipments: the shipments popped and the queue left
pop_ready_shipments(queue, current_time) ==
    LET k == ReadyShipments(queue, current_time)
    IN [ready |-> SubSeq(queue, 1, k), queue |-> SubSeq(queue, k + 1, Len(queue))]

\* sum(q for _, q in queue)
RECURSIVE SumQuantities(_)
SumQuantities(queue) ==
    IF queue = <<>> THEN 0 ELSE queue[1][2] + SumQuantities(Tail(queue))

\* ProductQueue.queue_size
queue_size(queue) == SumQuantities(queue)

\* ProductQueue.quantity_in_front_of_last and
\* CustomerQueue.quantity_in_front_of_last
quantity_in_front_of_last(queue) ==
    IF Len(queue) <= 1 THEN 0 ELSE SumQuantities(SubSeq(queue, 1, Len(queue) - 1))

\* CustomerQueue.add_customer
add_customer(queue, customer) == Append(queue, customer)

\* CustomerQueue.pop_customer: the queue left
pop_customer(queue) == IF queue # <<>> THEN Tail(queue) ELSE queue

\* Shop.__init__
Shop(max_inventory, lead_time) ==
    [inventory |-> Inventory(max_inventory),
     product_queue |-> <<>>,
     customer_queue |-> <<>>,
     lead_time |-> lead_time,
     pending_order |-> None]

\* Simulation.__init__; the two histories that step creates on its first call
\* start empty
Simulation(max_inventory, lead_time, mxt, max_customer_interval, min_demand, max_demand) ==
    [max_inventory |-> max_inventory,
     lead_time |-> lead_time,
     max_time |-> mxt,
     max_customer_interval |-> max_customer_interval,
     min_demand |-> min_demand,
     max_demand |-> max_demand,
     shop |-> Shop(max_inventory, lead_time),
     time |-> 0,
     next_customer_time |-> 0,
     stats |-> <<>>,
     last_customer |-> <<>>,
     last_customer_arrived |-> FALSE,
     orders_with_manufacturer |-> <<>>,
     product_queue_in_front_of_last_hist |-> <<>>,
     customer_queue_in_front_of_last_hist |-> <<>>]

\* one call of an Inventory method as step observes it: current before, the
\* argument, the value returned and current afterwards
InventoryCall(inventory, quantity, r) ==
    [current |-> inventory.current, quantity |-> quantity,
     returned |-> r.returned, after |-> r.inventory.current]

\* Simulation.step, part 2: the loop that serves waiting customers from the
\* head of the queue while the inventory covers the whole demand
RECURSIVE ServeWaiting(_)
ServeWaiting(w) ==
    IF w.customer_queue # <<>> /\ w.inventory.current >= w.customer_queue[1][2]
    THEN LET next_customer == w.customer_queue[1]
             r == remove(w.inventory, next_customer[2])
         IN ServeWaiting([w EXCEPT
                            !.inventory = r.inventory,
                            !.customer_queue = pop_customer(@),
                            !.consumed = @ + next_customer[2],
                            !.removes = Append(@, InventoryCall(w.inventory,
                                                                next_customer[2], r))])
    ELSE w

\* Simulation.step, part 3: the arriving customer is served at once when
\* nobody waits and the inventory covers the demand, and queued otherwise
CustomerArrival(w, t, demand) ==
    LET customer == <<t, demand>>
    IN IF w.customer_queue = <<>> /\ w.pending_order = None
          /\ w.inventory.current >= demand
       THEN LET r == remove(w.inventory, demand)
            IN [w EXCEPT !.inventory = r.inventory,
                         !.consumed = @ + demand,
                         !.removes = Append(@, InventoryCall(w.inventory, demand, r))]
       ELSE [w EXCEPT !.customer_queue = add_customer(@, customer)]

\* Simulation.step; demand and interval are the two values random.randint
\* returns when a customer arrives.  The result is the object afterwards and
\* the observation of the call.
Simulation_step(sim, demand, interval) ==
    LET t == sim.time
        prev_inventory == sim.shop.inventory.current
        p == pop_ready_shipments(sim.shop.product_queue, t)
        incoming == SumQuantities(p.ready)
        a == add(sim.shop.inventory, incoming)
        orders == SelectSeq(sim.orders_with_manufacturer, LAMBDA o : o.arrival_time > t)
        w1 == [inventory |-> a.inventory,
               customer_queue |-> sim.shop.customer_queue,
               pending_order |-> sim.shop.pending_order,
               consumed |-> 0,
               removes |-> <<>>]
        w2 == IF sim.shop.pending_order # None THEN w1 ELSE ServeWaiting(w1)
        arrives == t >= sim.next_customer_time
        w3 == IF arrives THEN CustomerArrival(w2, t, demand) ELSE w2
        product_queue == IF arrives
                         THEN add_shipment(p.queue, t + sim.lead_time, demand)
                         ELSE p.queue
        state == [time |-> t,
                  inventory |-> w3.inventory.current,
                  product_queue |-> product_queue,
                  product_queue_size |-> queue_size(product_queue),
                  product_queue_in_front_of_last |-> quantity_in_front_of_last(product_queue),
                  customer_queue |-> w3.customer_queue,
                  customer_queue_size |-> Len(w3.customer_queue),
                  customer_queue_in_front_of_last |-> quantity_in_front_of_last(w3.customer_queue),
                  customer_arrived |-> arrives,
                  customer_demand |-> IF arrives THEN demand ELSE None,
                  inventory_prev |-> prev_inventory,
                  inventory_incoming |-> incoming,
                  inventory_consumed |-> w3.consumed,
                  inventory_calc |-> <<prev_inventory, incoming, w3.consumed,
                                       w3.inventory.current>>]
    IN [sim |-> [sim EXCEPT
                   !.shop = [@ EXCEPT !.inventory = w3.inventory,
                                      !.product_queue = product_queue,
                                      !.customer_queue = w3.customer_queue],
                   !.orders_with_manufacturer =
                       IF arrives
                       THEN Append(orders, [order_time |-> t,
                                            arrival_time |-> t + sim.lead_time,
                                            quantity |-> demand])
                       ELSE orders,
                   !.next_customer_time = IF arrives THEN t + interval ELSE @,
                   !.last_customer = IF arrives THEN <<t, demand>> ELSE @,
                   !.product_queue_in_front_of_last_hist =
                       Append(@, state.product_queue_in_front_of_last),
                   !.customer_queue_in_front_of_last_hist =
                       Append(@, state.customer_queue_in_front_of_last),
                   !.stats = Append(@, state),
                   !.time = t + 1],
        log |-> [op |-> "Simulation.step", t |-> t,
                 add |-> InventoryCall(sim.shop.inventory, incoming, a),
                 removes |-> w3.removes,
                 state |-> state]]

\* Simulation.reset: a new Shop; the two histories of step are kept
Simulation_reset(sim) ==
    [sim EXCEPT !.shop = Shop(sim.max_inventory, sim.lead_time),
                !.time = 0,
                !.next_customer_time = 0,
                !.stats = <<>>,
                !.last_customer = <<>>,
                !.last_customer_arrived = FALSE,
                !.orders_with_manufacturer = <<>>]

\* The configurations the shop is constructed with: quantities and the lead
\* time are non-negative, the demand range and the interval range
\* (1..max_customer_interval) are not empty, and the largest demand may
\* exceed the capacity.  max_time is read by is_finished alone.
ShopConfigurations ==
    { c \in [max_inventory : 0..MaxInventory,
             lead_time : 0..MaxLeadTime,
             max_customer_interval : 1..MaxInterval,
             min_demand : 0..MaxShopDemand,
             max_demand : 0..MaxShopDemand] :
        c.min_demand <= c.max_demand }

InitShop ==
    /\ NoEngine
    /\ \E c \in ShopConfigurations :
         simulation = Simulation(c.max_inventory, c.lead_time, Horizon,
                                 c.max_customer_interval, c.min_demand, c.max_demand)
    /\ last = NoLog
    /\ calls = 0
    /\ resets = 0

\* A call of Simulation.step with the values the random generator returns.
StepShop ==
    /\ calls < ShopCalls
    /\ \E demand \in simulation.min_demand..simulation.max_demand,
          interval \in 1..simulation.max_customer_interval :
         LET r == Simulation_step(simulation, demand, interval)
         IN /\ simulation' = r.sim
            /\ last' = r.log
    /\ calls' = calls + 1
    /\ UNCHANGED <<engine, resets>>

\* A call of Simulation.reset at a later tick than 0.
ResetShop ==
    /\ calls < ShopCalls
    /\ simulation.time > 0
    /\ simulation' = Simulation_reset(simulation)
    /\ last' = [op |-> "Simulation.reset", t |-> simulation.time]
    /\ calls' = calls + 1
    /\ resets' = resets + 1
    /\ UNCHANGED engine

NextShop == StepShop \/ ResetShop

SpecShop == InitShop /\ [][NextShop]_vars

\* --------------------------------------------------------------------- C31
\* C31: inventory bounds of the single-stage shop (capacity and demands are
\* non-negative quantities).  After any sequence of calls of step and reset
\* the inventory holds at least zero and at most max_capacity units.
\* In every step Inventory.add returned min(max_capacity - current,
\* quantity) and every Inventory.remove returned min(current, quantity);
\* each call changed current by exactly the value it returned, and the calls
\* of the step lead from the inventory before the step to the one after it.
C31_InventoryBounds ==
    LET inventory == simulation.shop.inventory
    IN /\ 0 <= inventory.current
       /\ inventory.current <= inventory.max_capacity
       /\ last.op = "Simulation.step" =>
            /\ last.add.returned
                  = Min(inventory.max_capacity - last.add.current, last.add.quantity)
            /\ last.add.after = last.add.current + last.add.returned
            /\ last.add.current = last.state.inventory_prev
            /\ \A j \in DOMAIN last.removes :
                  /\ last.removes[j].returned
                        = Min(last.removes[j].current, last.removes[j].quantity)
                  /\ last.removes[j].after
                        = last.removes[j].current - last.removes[j].returned
                  /\ last.removes[j].current
                        = IF j = 1 THEN last.add.after ELSE last.removes[j - 1].after
            /\ inventory.current
                  = IF last.removes = <<>> THEN last.add.after
                    ELSE last.removes[Len(last.removes)].after

\* C31 witness: after a customer was served from the inventory in an
\* earlier step, a step receives more units than the inventory has room for
\* and add returns less than the quantity, leaving the inventory full.
C31_Witness ==
    /\ last.op = "Simulation.step"
    /\ last.add.quantity > 0
    /\ last.add.returned < last.add.quantity
    /\ simulation.shop.inventory.current = simulation.shop.inventory.max_capacity
    /\ \E i \in DOMAIN simulation.stats : simulation.stats[i].inventory_consumed > 0

\* --------------------------------------------------------------------- C32
\* C32: accounting identity of the single-stage shop.  Every state reported
\* by step satisfies inventory_prev + inventory_incoming -
\* inventory_consumed = inventory, the equation written into inventory_calc.
C32_AccountingIdentity ==
    \A i \in DOMAIN simulation.stats :
       LET state == simulation.stats[i]
       IN /\ state.inventory_calc = <<state.inventory_prev, state.inventory_incoming,
                                      state.inventory_consumed, state.inventory>>
          /\ state.inventory_prev + state.inventory_incoming
               - state.inventory_consumed = state.inventory

====
